---- MODULE Spec2Model ----
(***************************************************************************)
(* Model of the schedulenotify application: the page (src/src/app/page.tsx)*)
(* that owns the event collection, the service worker (src/public/sw.js)   *)
(* that arms the notification timers, and the chat matcher                 *)
(* (src/src/lib/calendar.ts).                                              *)
(*                                                                         *)
(* Time is counted in units of 5 minutes since a local midnight that is a  *)
(* Sunday: 10 minutes = 2, 30 minutes = 6, 24 hours = 288.  An event's     *)
(* `date` is its instant in these units (new Date(event.date).getTime()).  *)
(***************************************************************************)
EXTENDS Integers, Sequences, FiniteSets, TLC

\* ---- program constants (5-minute units) ----
REMINDER == 2
DAY == 288
INTERVAL == 6

\* ---- bounds of the model ----
MaxNow == 6
MaxAdds == 1
MaxEvents == 2
MaxQueue == 1
MaxPieces == 2
MaxSaves == 2
MaxSends == 2
MaxMs == 6

VARIABLES
    now,                  \* Date.now()
    \* -- page.tsx: Home --
    events,               \* useState events
    isLoaded,             \* useState isLoaded
    notificationsEnabled, \* useState notificationsEnabled
    effectPending,        \* the save & push effect has to run (a dependency changed)
    created,              \* number of events created by the add-event form
    \* -- browser --
    storage,              \* localStorage['ai-secretary-events']
    permission,           \* Notification.permission, or "unsupported"
    swSupported,          \* 'serviceWorker' in navigator
    swState,              \* "none" | "installing" | "active"
    toSW,                 \* SCHEDULE_NOTIFICATIONS messages posted, not yet handled
    toClient,             \* REQUEST_EVENTS messages posted, not yet handled
    timers,               \* the worker's pending setTimeout timers, by handle
    shown,                \* notifications shown so far, in order
    \* -- sw.js globals --
    scheduledTimeouts,    \* let scheduledTimeouts
    checkInterval,        \* let checkInterval: the interval's next due instant, or NoInterval
    \* -- history of the calls of scheduleNotifications, for its own properties --
    lastEvents,           \* argument of the most recent call in this worker context
    lastNow,              \* its Date.now(), or NoCall
    lastArmed,            \* the triggers it armed, in order
    rearm,                \* "same" | "differs": the most recent call had the events of the
                          \* call before it, and armed the same / other (event id, kind)
                          \* pairs; "none": it had other events, or was the first call
    sameNow,              \* the most recent call was made at the instant of the one before
    cleared,              \* how many pending timers the most recent call cancelled
    firedSince,           \* handles whose callback ran since the most recent call
    \* -- chat --
    chatInput,            \* the text handed to parseAIResponse
    chat,                 \* the chat panel: messages, isTyping, reply timeouts
    reply,                \* what parseAIResponse returned
    \* -- the add-event form (AddEventModal) --
    modal,                \* isOpen, the title typed, and how often it was submitted
    \* -- history of the calls of loadEvents and saveEvents, for their own properties --
    io                    \* the most recent call, the number of saves, the collection
                          \* last handed to saveEvents

appVars == <<events, isLoaded, notificationsEnabled, effectPending, created>>
envVars == <<storage, permission, swSupported>>
swVars == <<swState, timers, shown, scheduledTimeouts, checkInterval>>
histVars == <<lastEvents, lastNow, lastArmed, rearm, sameNow, cleared, firedSince>>
chatVars == <<chatInput, reply, chat>>
formVars == <<modal, io>>
vars == <<now, appVars, envVars, swVars, toSW, toClient, histVars, chatVars, formVars>>

NoInterval == -1
NoCall == 0 - 1
NoReply == [rule |-> 0, text |-> <<>>]

\* The chat panel before anything is sent: useState([]), useState(false); no
\* timeout pending, the panel's clock (in units of 200 ms) at 0.
NoMessages == [messages |-> <<>>, isTyping |-> FALSE, timeouts |-> <<>>, sent |-> 0, ms |-> 0]

Range(s) == {s[i] : i \in 1..Len(s)}

\* ---------------------------------------------------------------------
\* Events (CalendarEvent).  In the application's runs an absent
\* `description` is written "", which the code treats as it treats undefined
\* (both are falsy); `color` plays no part in what follows.
\* ---------------------------------------------------------------------
Event(i, t, d, desc) == [id |-> i, title |-> t, date |-> d, description |-> desc]

\* The value of a property that is undefined, and the mark of a key that a
\* JSON text leaves out.
Undefined == "(undefined)"
Omitted == "(omitted)"

\* ---------------------------------------------------------------------
\* localStorage['ai-secretary-events']: nothing, or a text.  A text is the
\* empty string, a text that is no JSON, the JSON of a value that is no
\* array ("object"), or the JSON of an array of objects.
\* ---------------------------------------------------------------------
NoData == [present |-> FALSE, syntax |-> "none", value |-> <<>>]
Text(syntax, items) == [present |-> TRUE, syntax |-> syntax, value |-> items]

\* JSON.stringify leaves out a property whose value is undefined; a property
\* that JSON.parse does not find reads undefined.
JSONstringifyTruthy(evs) ==
    Text("array", [i \in 1..Len(evs) |->
        [evs[i] EXCEPT !.description = IF @ = Undefined \/ @ = "" THEN Omitted ELSE @]])
JSONstringify(evs) ==
    Text("array", [i \in 1..Len(evs) |->
        [evs[i] EXCEPT !.description = IF @ = Undefined THEN Omitted ELSE @]])
JSONparse(text) ==
    [i \in 1..Len(text.value) |->
        [text.value[i] EXCEPT !.description = IF @ = Omitted THEN Undefined ELSE @]]

Stored(evs) == JSONstringify(evs)

\* What JSON.parse returns for the JSON of a value that is no array, as the
\* caller sees it: not a collection of events.
NotAnArray == <<Event(0 - 1, "", 0 - 1, "[object Object]")>>

\* Event instants: 5 and 15 minutes after the epoch, and 24 h 10 min after it
\* (outside the look-ahead window at first).
Dates == {1, 3, DAY + 2}

\* The instant the add-event form is submitted with, in the application's runs
FormDates == {3}

\* What an earlier session left in localStorage: one event, a day ahead.
StoredCollections == {Stored(<<Event(0, "gym", DAY + 2, "back")>>)}

getDefaultEvents(t) ==
    LET today == (t \div DAY) * DAY
    IN  << Event(101, "lunch", today + 144, "sato"),
           Event(102, "gym", today + 216, "back"),
           Event(103, "salon", today + DAY + 132, "11:00"),
           Event(104, "project", today + 5 * DAY + 168, "zoom") >>

\* const data = localStorage.getItem(STORAGE_KEY); if (data) return
\* JSON.parse(data), whatever it is; catch: ignore; return getDefaultEvents().
loadEvents(store, t) ==
    IF ~store.present \/ store.syntax = "empty" THEN getDefaultEvents(t)
    ELSE IF store.syntax = "invalid" THEN getDefaultEvents(t)
    ELSE IF store.syntax = "array" THEN JSONparse(store)
    ELSE NotAnArray

\* localStorage.setItem(STORAGE_KEY, JSON.stringify(events))
saveEvents(evs) == Stored(evs)

\* ---------------------------------------------------------------------
\* sw.js: scheduleNotifications
\* ---------------------------------------------------------------------
Trigger(ev, kind, delay) == [event |-> ev, kind |-> kind, delay |-> delay]

\* setTimeout returns a handle no pending timer has.
NewHandle(tm) == CHOOSE h \in 1..(Cardinality(DOMAIN tm) + 1) : h \notin DOMAIN tm

\* scheduledTimeouts.forEach((t) => clearTimeout(t))
ClearTimeoutsKeep(tm, list) == tm
ClearTimeouts(tm, list) == [h \in (DOMAIN tm) \ Range(list) |-> tm[h]]

\* delay > 0 && delay < 24 * 60 * 60 * 1000
InWindowClosed(delay) == delay >= 0 /\ delay <= DAY
InWindow(delay) == delay > 0 /\ delay < DAY

\* const timeout = setTimeout(cb, delay); scheduledTimeouts.push(timeout)
Arm(st, ev, kind, delay, t) ==
    IF InWindow(delay)
    THEN LET h == NewHandle(st.timers)
         IN  [timers |-> st.timers @@ (h :> [event |-> ev, kind |-> kind, due |-> t + delay]),
              list   |-> Append(st.list, h),
              armed  |-> Append(st.armed, Trigger(ev, kind, delay))]
    ELSE st

\* the body of events.forEach
ArmEventNested(st, ev, t) ==
    LET delay == (ev.date - REMINDER) - t
        delayExact == ev.date - t
    IN  IF InWindow(delay) THEN Arm(Arm(st, ev, "pre", delay, t), ev, "at", delayExact, t)
        ELSE st
ArmEvent(st, ev, t) ==
    LET eventTime == ev.date
        notifyTime == eventTime - REMINDER
        delay == notifyTime - t
        delayExact == eventTime - t
    IN  Arm(Arm(st, ev, "pre", delay, t), ev, "at", delayExact, t)

RECURSIVE ArmAll(_, _, _, _)
ArmAll(st, evs, i, t) ==
    IF i > Len(evs) THEN st ELSE ArmAll(ArmEvent(st, evs[i], t), evs, i + 1, t)

\* The worker's timers and list after scheduleNotifications(evs) at instant t,
\* with the triggers the call armed.
scheduleNotifications(tm, list, evs, t) ==
    ArmAll([timers |-> ClearTimeouts(tm, list), list |-> <<>>, armed |-> <<>>], evs, 1, t)

\* The (event id, kind) pairs of a sequence of triggers
Pairs(armed) == {<<armed[i].event.id, armed[i].kind>> : i \in 1..Len(armed)}

\* A timer's callback: showNotification, which shows nothing without the permission.
\* eventDate.toLocaleTimeString('ja-JP', {hour: '2-digit', minute: '2-digit'})
toLocaleTimeString(d) ==
    [hh |-> (d % DAY) \div (DAY \div 24),
     mm |-> ((d % DAY) % (DAY \div 24)) * (60 \div (DAY \div 24))]

\* A notification body without a time.
NoTime == [hh |-> 0 - 1, mm |-> 0 - 1]

\* The body: for the reminder the time, a blank and the title, for the
\* at-time notification the title; then, if the description is not empty, a
\* line break and the description.
Body(ev, kind) ==
    [time |-> IF kind = "pre" THEN toLocaleTimeString(ev.date) ELSE NoTime,
     title |-> ev.title,
     description |-> IF ev.description = "" \/ ev.description = Undefined
                     THEN "" ELSE ev.description]

\* `event-${event.id}` and `event-now-${event.id}`
Tag(ev, kind) == [prefix |-> IF kind = "pre" THEN "event-" ELSE "event-now-", id |-> ev.id]

\* The options of showNotification, with the title it is called with.
Notification(tm) ==
    [event |-> tm.event, kind |-> tm.kind,
     title |-> IF tm.kind = "pre" THEN "mamonaku yotei ga arimasu" ELSE "yotei no jikan desu",
     body |-> Body(tm.event, tm.kind),
     tag |-> Tag(tm.event, tm.kind)]
showNotification(list, tm, perm) ==
    IF perm = "granted" THEN Append(list, Notification(tm)) ELSE list

\* The host runs the callbacks of expired timers in the order of their due
\* instants and, among equals, in the order they were set (the handles' order).
Expired(tm, h, t) ==
    /\ h \in DOMAIN tm
    /\ t >= tm[h].due
    /\ \A k \in DOMAIN tm :
          tm[k].due > tm[h].due \/ (tm[k].due = tm[h].due /\ k >= h)

\* The timers left when the callback of timer h has run
Fired(tm, h) == [k \in (DOMAIN tm) \ {h} |-> tm[k]]

\* ---------------------------------------------------------------------
\* Initial state: the page not yet mounted, no worker registered.
\* ---------------------------------------------------------------------
NoHistory ==
    /\ lastEvents = <<>>
    /\ lastNow = NoCall
    /\ lastArmed = <<>>
    /\ rearm = "none"
    /\ sameNow = FALSE
    /\ cleared = 0
    /\ firedSince = {}

NoChat ==
    /\ chatInput = <<>>
    /\ reply = NoReply
    /\ chat = NoMessages

NoIO == [op |-> "none", saves |-> 0, given |-> <<>>]

NoForm ==
    /\ modal = [open |-> FALSE, title |-> <<>>, submits |-> 0]
    /\ io = NoIO

Init ==
    /\ now = 0
    /\ events = <<>>
    /\ isLoaded = FALSE
    /\ notificationsEnabled = FALSE
    /\ effectPending = TRUE
    /\ created = 0
    /\ storage \in StoredCollections
    /\ permission \in {"unsupported", "default", "granted", "denied"}
    /\ swSupported \in BOOLEAN
    /\ swState = "none"
    /\ toSW = <<>>
    /\ toClient = 0
    /\ timers = <<>>
    /\ shown = <<>>
    /\ scheduledTimeouts = <<>>
    /\ checkInterval = NoInterval
    /\ NoHistory
    /\ NoForm
    /\ NoChat

\* ---------------------------------------------------------------------
\* page.tsx
\* ---------------------------------------------------------------------
\* sendEventsToSW: posts once navigator.serviceWorker.ready resolves, so the
\* messages reach the worker in the order of the calls.
CanSend == swSupported => Len(toSW) < MaxQueue
sendEventsToSW(q, evs) == IF swSupported THEN Append(q, evs) ELSE q

\* The initialize effect (useEffect(..., [])).  The save & push effect's first
\* run, of the same commit, sees the first render's isLoaded = false whichever
\* of the two runs first; the state set here makes it run again.
Mount ==
    /\ ~isLoaded
    /\ events' = loadEvents(storage, now)
    /\ isLoaded' = TRUE
    /\ notificationsEnabled' =
          (IF permission = "unsupported" THEN notificationsEnabled
           ELSE permission = "granted")
    /\ swState' = IF swSupported THEN "installing" ELSE swState
    /\ effectPending' = TRUE
    /\ UNCHANGED <<now, created, envVars, timers, shown, scheduledTimeouts, checkInterval,
                   toSW, toClient, histVars, chatVars, formVars>>

\* The effect without its test of isLoaded.
SaveEffectUnloaded ==
    /\ effectPending
    /\ CanSend
    /\ effectPending' = FALSE
    /\ storage' = saveEvents(events)
    /\ IF notificationsEnabled
       THEN toSW' = sendEventsToSW(toSW, events)
       ELSE UNCHANGED toSW
    /\ UNCHANGED <<now, events, isLoaded, notificationsEnabled, created, permission,
                   swSupported, swVars, toClient, histVars, chatVars, formVars>>

\* The effect saving only when it also posts.
SaveEffectWhenEnabled ==
    /\ effectPending
    /\ CanSend
    /\ effectPending' = FALSE
    /\ IF isLoaded /\ notificationsEnabled
       THEN /\ storage' = saveEvents(events)
            /\ toSW' = sendEventsToSW(toSW, events)
       ELSE UNCHANGED <<storage, toSW>>
    /\ UNCHANGED <<now, events, isLoaded, notificationsEnabled, created, permission,
                   swSupported, swVars, toClient, histVars, chatVars, formVars>>

PushNever(enabled) == FALSE
PushWanted(enabled) == enabled

\* useEffect(() => { if (isLoaded) { saveEvents(events); if (notificationsEnabled)
\* sendEventsToSW(events) } }, [events, isLoaded, notificationsEnabled])
SaveEffect ==
    /\ effectPending
    /\ CanSend
    /\ effectPending' = FALSE
    /\ IF isLoaded
       THEN /\ storage' = saveEvents(events)
            /\ IF PushWanted(notificationsEnabled)
               THEN /\ toSW' = sendEventsToSW(toSW, events)
               ELSE UNCHANGED toSW
       ELSE UNCHANGED <<storage, toSW>>
    /\ UNCHANGED <<now, events, isLoaded, notificationsEnabled, created, permission,
                   swSupported, swVars, toClient, histVars, chatVars, formVars>>

\* An add that puts the new event first: setEvents((prev) => [event, ...prev]).
handleAddEventFirst ==
    /\ isLoaded
    /\ created < MaxAdds
    /\ \E d \in FormDates :
          events' = <<Event(created + 1, "mtg", d, "")>> \o events
    /\ created' = created + 1
    /\ effectPending' = TRUE
    /\ UNCHANGED <<now, isLoaded, notificationsEnabled, envVars, swVars, toSW, toClient,
                   histVars, chatVars, formVars>>

\* AddEventModal.handleSubmit with a non-blank title, then handleAddEvent:
\* setEvents((prev) => [...prev, event]); the id is a fresh crypto.randomUUID().
handleAddEvent ==
    /\ isLoaded
    /\ created < MaxAdds
    /\ \E d \in FormDates :
          events' = Append(events, Event(created + 1, "mtg", d, ""))
    /\ created' = created + 1
    /\ effectPending' = TRUE
    /\ UNCHANGED <<now, isLoaded, notificationsEnabled, envVars, swVars, toSW, toClient,
                   histVars, chatVars, formVars>>

\* setEvents((prev) => prev.filter((e) => e.id !== id)), from an event's delete button
handleDeleteEvent ==
    /\ isLoaded
    /\ \E i \in 1..Len(events) :
          events' = SelectSeq(events, LAMBDA e : e.id # events[i].id)
    /\ effectPending' = TRUE
    /\ UNCHANGED <<now, isLoaded, notificationsEnabled, created, envVars, swVars, toSW,
                   toClient, histVars, chatVars, formVars>>

\* requestNotificationPermission: what Notification.permission becomes
PermissionOutcomes ==
    IF permission = "default" THEN {"default", "granted", "denied"} ELSE {permission}

handleToggleNotifications ==
    /\ isLoaded
    /\ IF notificationsEnabled
       THEN /\ notificationsEnabled' = FALSE
            /\ effectPending' = TRUE
            /\ UNCHANGED <<permission, toSW>>
       ELSE \E p \in PermissionOutcomes :
               LET granted == (p = "granted")
               IN  /\ permission' = p
                   /\ notificationsEnabled' = granted
                   /\ IF granted
                      THEN /\ CanSend
                           /\ toSW' = sendEventsToSW(toSW, events)
                           /\ effectPending' = TRUE
                      ELSE UNCHANGED <<toSW, effectPending>>
    /\ UNCHANGED <<now, events, isLoaded, created, storage, swSupported, swVars, toClient,
                   histVars, chatVars, formVars>>

\* navigator.serviceWorker 'message' listener: REQUEST_EVENTS
ClientMessage ==
    /\ isLoaded
    /\ toClient > 0
    /\ CanSend
    /\ toClient' = toClient - 1
    /\ toSW' = sendEventsToSW(toSW, loadEvents(storage, now))
    /\ UNCHANGED <<now, appVars, envVars, swVars, histVars, chatVars, formVars>>

\* ---------------------------------------------------------------------
\* sw.js
\* ---------------------------------------------------------------------
\* 'activate': startNotificationCheck()
SWActivate ==
    /\ swState = "installing"
    /\ swState' = "active"
    /\ checkInterval' = now + INTERVAL
    /\ UNCHANGED <<now, appVars, envVars, timers, shown, scheduledTimeouts, toSW, toClient,
                   histVars, chatVars, formVars>>

\* 'message': SCHEDULE_NOTIFICATIONS
SWMessage ==
    /\ swState = "active"
    /\ toSW # <<>>
    /\ LET evs == Head(toSW)
           st == scheduleNotifications(timers, scheduledTimeouts, evs, now)
       IN  /\ timers' = st.timers
           /\ scheduledTimeouts' = st.list
    /\ toSW' = Tail(toSW)
    /\ UNCHANGED <<now, appVars, envVars, swState, shown, checkInterval, toClient,
                   histVars, chatVars, formVars>>

\* A timer's callback runs, at its due instant or later
SWTimerFire ==
    /\ \E h \in DOMAIN timers :
          /\ Expired(timers, h, now)
          /\ timers' = Fired(timers, h)
          /\ shown' = showNotification(shown, timers[h], permission)
    /\ UNCHANGED <<now, appVars, envVars, swState, scheduledTimeouts, checkInterval, toSW,
                   toClient, histVars, chatVars, formVars>>

SWIntervalOnce ==
    /\ checkInterval # NoInterval
    /\ now >= checkInterval
    /\ checkInterval' = NoInterval
    /\ toClient' = IF isLoaded THEN toClient + 1 ELSE toClient
    /\ UNCHANGED <<now, appVars, envVars, swState, timers, shown, scheduledTimeouts, toSW,
                   histVars, chatVars, formVars>>

\* The setInterval callback: REQUEST_EVENTS to every window client
SWIntervalFire ==
    /\ checkInterval # NoInterval
    /\ now >= checkInterval
    /\ checkInterval' = now + INTERVAL
    /\ toClient' = IF isLoaded THEN toClient + 1 ELSE toClient
    /\ UNCHANGED <<now, appVars, envVars, swState, timers, shown, scheduledTimeouts, toSW,
                   histVars, chatVars, formVars>>

\* The browser stops the idle worker: its timers and globals are gone; the next
\* event starts it again with the globals as sw.js initializes them.
SWTerminate ==
    /\ swState = "active"
    /\ timers # <<>> \/ scheduledTimeouts # <<>> \/ checkInterval # NoInterval
    /\ timers' = <<>>
    /\ scheduledTimeouts' = <<>>
    /\ checkInterval' = NoInterval
    /\ UNCHANGED <<now, appVars, envVars, swState, shown, toSW, toClient,
                   histVars, chatVars, formVars>>

Tick ==
    /\ now < MaxNow
    /\ now' = now + 1
    /\ UNCHANGED <<appVars, envVars, swVars, toSW, toClient, histVars, chatVars, formVars>>

Next ==
    \/ Mount
    \/ SaveEffect
    \/ handleAddEvent
    \/ handleDeleteEvent
    \/ handleToggleNotifications
    \/ ClientMessage
    \/ SWActivate
    \/ SWMessage
    \/ SWTimerFire
    \/ SWIntervalFire
    \/ SWTerminate
    \/ Tick

Spec == Init /\ [][Next]_vars

EventsOfId(i) == {Event(i, "mtg", d, "") : d \in Dates}

\* ---------------------------------------------------------------------
\* The scheduler alone: the worker is active and scheduleNotifications is
\* called with any collection, at any instant, any number of times.  The
\* permission has not been asked for, so the callbacks show nothing; what is
\* shown is followed in Spec.
\* ---------------------------------------------------------------------
\* The collections of at most MaxEvents events, the ids distinct: the event at
\* place j has id j (the ids are opaque, so which ids they are does not matter).
Collections ==
    UNION {{s \in [1..n -> UNION {EventsOfId(i) : i \in 1..n}] :
               \A j \in 1..n : s[j].id = j} : n \in 0..MaxEvents}

SchedInit ==
    /\ now = 0
    /\ events = <<>>
    /\ isLoaded = FALSE
    /\ notificationsEnabled = FALSE
    /\ effectPending = FALSE
    /\ created = 0
    /\ storage = Stored(<<>>)
    /\ permission = "default"
    /\ swSupported = TRUE
    /\ swState = "active"
    /\ toSW = <<>>
    /\ toClient = 0
    /\ timers = <<>>
    /\ shown = <<>>
    /\ scheduledTimeouts = <<>>
    /\ checkInterval = NoInterval
    /\ NoHistory
    /\ NoForm
    /\ NoChat

\* scheduleNotifications(evs), with the history of the call
SchedCall ==
    /\ \E evs \in Collections :
          LET st == scheduleNotifications(timers, scheduledTimeouts, evs, now)
          IN  /\ timers' = st.timers
              /\ scheduledTimeouts' = st.list
              /\ lastArmed' = st.armed
              /\ rearm' = IF lastNow = NoCall \/ lastEvents # evs THEN "none"
                          ELSE IF Pairs(st.armed) = Pairs(lastArmed) THEN "same"
                          ELSE "differs"
              /\ sameNow' = (lastNow = now)
              /\ cleared' = Cardinality(DOMAIN timers)
                               - Cardinality(DOMAIN ClearTimeouts(timers, scheduledTimeouts))
              /\ lastEvents' = evs
              /\ lastNow' = now
              /\ firedSince' = {}
    /\ UNCHANGED <<now, appVars, envVars, swState, shown, checkInterval, toSW, toClient,
                   chatVars, formVars>>

\* A timer's callback runs
SchedTimerFire ==
    /\ \E h \in DOMAIN timers :
          /\ Expired(timers, h, now)
          /\ timers' = Fired(timers, h)
          /\ shown' = showNotification(shown, timers[h], permission)
          /\ firedSince' = firedSince \cup {h}
    /\ UNCHANGED <<now, appVars, envVars, swState, scheduledTimeouts, checkInterval, toSW,
                   toClient, lastEvents, lastNow, lastArmed, rearm, sameNow, cleared,
                   chatVars, formVars>>

\* The worker is stopped: a new context, with no call yet
SchedTerminate ==
    /\ timers # <<>> \/ scheduledTimeouts # <<>>
    /\ timers' = <<>>
    /\ scheduledTimeouts' = <<>>
    /\ lastEvents' = <<>>
    /\ lastNow' = NoCall
    /\ lastArmed' = <<>>
    /\ rearm' = "none"
    /\ sameNow' = FALSE
    /\ cleared' = 0
    /\ firedSince' = {}
    /\ UNCHANGED <<now, appVars, envVars, swState, shown, checkInterval, toSW, toClient,
                   chatVars, formVars>>

SchedNext ==
    \/ SchedCall
    \/ SchedTimerFire
    \/ SchedTerminate
    \/ Tick

SchedulerSpec == SchedInit /\ [][SchedNext]_vars

\* ---------------------------------------------------------------------
\* Properties of scheduleNotifications (SchedulerSpec)
\* ---------------------------------------------------------------------
Called == lastNow # NoCall

\* The triggers the most recent call armed for the event with id i
ArmedFor(i) == {j \in 1..Len(lastArmed) : lastArmed[j].event.id = i}
ArmedKind(i, kind) == \E j \in ArmedFor(i) : lastArmed[j].kind = kind

\* C1: every trigger a call of scheduleNotifications arms is armed with a delay
\* d, 0 < d < 24 h; no pending timer is due at or before the instant of the
\* call that armed it, or 24 hours or more after it.
C1_ArmedWithinWindow ==
    /\ \A j \in 1..Len(lastArmed) : lastArmed[j].delay > 0 /\ lastArmed[j].delay < DAY
    /\ \A h \in DOMAIN timers : timers[h].due > lastNow /\ timers[h].due < lastNow + DAY

\* A call armed a trigger while its collection also held an event that was
\* not in the future any more and one whose instant was 24 hours or more away.
C1_Witness ==
    /\ Called
    /\ lastArmed # <<>>
    /\ timers # <<>>
    /\ \E i \in 1..Len(lastEvents) : lastEvents[i].date <= lastNow
    /\ \E i \in 1..Len(lastEvents) : lastEvents[i].date - lastNow >= DAY

\* C2: after any sequence of calls the pending timers are exactly the triggers
\* the most recent call armed from its events, less those whose callback has
\* run since; no timer of an earlier call is pending.
C2_ClearAndRecompute ==
    Called =>
        /\ DOMAIN timers \subseteq Range(scheduledTimeouts)
        /\ Len(scheduledTimeouts) = Len(lastArmed)
        /\ Cardinality(DOMAIN timers) + Cardinality(firedSince) = Len(lastArmed)
        /\ \A j \in 1..Len(lastArmed) :
              LET h == scheduledTimeouts[j]
              IN  /\ lastArmed[j].event \in Range(lastEvents)
                  /\ IF h \in firedSince
                     THEN h \notin DOMAIN timers
                     ELSE /\ h \in DOMAIN timers
                          /\ timers[h].event = lastArmed[j].event
                          /\ timers[h].kind = lastArmed[j].kind
                          /\ timers[h].due = lastNow + lastArmed[j].delay

\* A call cancelled timers of the call before it and armed others.
C2_Witness ==
    /\ Called
    /\ cleared > 0
    /\ rearm = "none"
    /\ timers # <<>>

\* C3 as stated: a call with the events of the call before it arms the same
\* (event id, kind) pairs as that call did.
C3_SameEventsSamePairs == rearm # "differs"

\* C3, amended: a call with the events of the call before it, made at the same
\* instant, arms the same (event id, kind) pairs; and at any time no two
\* pending timers are for the same (event id, kind) pair.
C3_IdempotentAtSameInstant ==
    /\ (rearm = "differs") => ~sameNow
    /\ \A h, k \in DOMAIN timers :
          (timers[h].event.id = timers[k].event.id /\ timers[h].kind = timers[k].kind)
             => h = k

\* The same events were scheduled twice at one instant, cancelling and arming
\* again the same pairs.
C3_Witness ==
    /\ rearm = "same"
    /\ sameNow
    /\ cleared > 0
    /\ Cardinality(DOMAIN timers) = cleared

\* C4: for every event e of a call at instant `now`, the pre-event trigger is
\* armed iff 0 < e.date - 10 min - now < 24 h and the at-time trigger iff
\* 0 < e.date - now < 24 h, each whatever the other; an event 5 minutes ahead
\* gets exactly the at-time trigger, an event at or before now gets none.
C4_ArmedIffInWindow ==
    Called =>
        \A i \in 1..Len(lastEvents) :
            LET e == lastEvents[i]
                pre == e.date - REMINDER - lastNow
                at == e.date - lastNow
            IN  /\ ArmedKind(e.id, "pre") <=> (0 < pre /\ pre < DAY)
                /\ ArmedKind(e.id, "at") <=> (0 < at /\ at < DAY)
                /\ Cardinality(ArmedFor(e.id)) =
                      (IF 0 < pre /\ pre < DAY THEN 1 ELSE 0)
                      + (IF 0 < at /\ at < DAY THEN 1 ELSE 0)
                /\ (at = 1) => (Cardinality(ArmedFor(e.id)) = 1 /\ ArmedKind(e.id, "at"))
                /\ (at <= 0) => ArmedFor(e.id) = {}

\* A call held an event 5 minutes ahead, which got the at-time trigger alone,
\* and an event 24 h ahead, which got the pre-event trigger alone.
C4_Witness ==
    /\ Called
    /\ \E i \in 1..Len(lastEvents) :
          /\ lastEvents[i].date - lastNow = 1
          /\ ArmedKind(lastEvents[i].id, "at")
          /\ ~ArmedKind(lastEvents[i].id, "pre")
    /\ \E i \in 1..Len(lastEvents) :
          /\ lastEvents[i].date - lastNow = DAY
          /\ ArmedKind(lastEvents[i].id, "pre")
          /\ ~ArmedKind(lastEvents[i].id, "at")

\* ---------------------------------------------------------------------
\* Properties of the application with its worker (Spec)
\* ---------------------------------------------------------------------
\* A step in which the save & push effect runs
EffectRuns == effectPending /\ ~effectPending'

\* A step in which the worker handles a SCHEDULE_NOTIFICATIONS message
Handles == toSW # <<>> /\ toSW' = Tail(toSW)

\* A step in which the page posts a collection to the worker
Sends == Len(toSW') > Len(toSW)

\* The triggers of collection evs at instant t: the pre-event one 10 minutes
\* before the event, the at-time one at the event, each if it lies in (t, t + 24 h)
TriggersOf(evs, t) ==
    {[event |-> evs[i], kind |-> "pre", due |-> evs[i].date - REMINDER] :
        i \in {j \in 1..Len(evs) : evs[j].date - REMINDER > t /\ evs[j].date - REMINDER < t + DAY}}
    \cup
    {[event |-> evs[i], kind |-> "at", due |-> evs[i].date] :
        i \in {j \in 1..Len(evs) : evs[j].date > t /\ evs[j].date < t + DAY}}

PendingTriggers(tm) == {tm[h] : h \in DOMAIN tm}

C10_NoSchedulingWhenDisabled ==
    [][ (~notificationsEnabled /\ ~notificationsEnabled') => ~Sends ]_vars

(***************************************************************************)
(* The chat matcher: calendar.ts parseAIResponse.  An input text is the    *)
(* sequence of its characters, each written by a romanised name (kanji and *)
(* katakana in capitals, hiragana in lower case), so that String.includes  *)
(* is a search for a contiguous run of characters.                         *)
(***************************************************************************)
includes(input, phrase) ==
    \E i \in 0..(Len(input) - Len(phrase)) :
        SubSeq(input, i + 1, i + Len(phrase)) = phrase

\* kyou no yotei, kyou ha nani
asksToday(input) ==
    \/ includes(input, <<"KON", "NICHI", "no", "YO", "TEI">>)
    \/ includes(input, <<"KON", "NICHI", "ha", "NANI">>)

\* ashita no yotei, ashita ha nani
asksTomorrow(input) ==
    \/ includes(input, <<"MYOU", "NICHI", "no", "YO", "TEI">>)
    \/ includes(input, <<"MYOU", "NICHI", "ha", "NANI">>)

\* konshuu, kono shuu
asksWeek(input) ==
    \/ includes(input, <<"KON", "SHUU">>)
    \/ includes(input, <<"ko", "no", "SHUU">>)

\* yotei together with tsuika, irete or touroku
asksAdd(input) ==
    /\ includes(input, <<"YO", "TEI">>)
    /\ \/ includes(input, <<"TSUI", "KA">>)
       \/ includes(input, <<"NYUU", "re", "te">>)
       \/ includes(input, <<"TOU", "ROKU">>)

\* ohayou, konnichiha, konbanha
greets(input) ==
    \/ includes(input, <<"o", "ha", "yo", "u">>)
    \/ includes(input, <<"ko", "n", "ni", "chi", "ha">>)
    \/ includes(input, <<"ko", "n", "ba", "n", "ha">>)

\* arigatou, tasukaru
thanks(input) ==
    \/ includes(input, <<"a", "ri", "ga", "to", "u">>)
    \/ includes(input, <<"JO", "ka", "ru">>)

\* tsukaikata, herupu, nani ga dekiru
asksHelp(input) ==
    \/ includes(input, <<"SHI", "i", "HOU">>)
    \/ includes(input, <<"HE", "RU", "PU">>)
    \/ includes(input, <<"NANI", "ga", "de", "ki", "ru">>)

\* new Date(s) of a string that is no date: its time value is NaN.
InvalidDate == 0 - 1

\* date-fns format throws a RangeError on an invalid date.
RangeError == [hh |-> 0 - 1, mm |-> 0 - 1]

isSameDayOrInvalid(a, b) == a = InvalidDate \/ a \div DAY = b \div DAY
isSameDay(a, b) == a # InvalidDate /\ a \div DAY = b \div DAY

filterEventsByDate(evs, date) == SelectSeq(evs, LAMBDA e : isSameDay(e.date, date))

formatEventTime(d) ==
    IF d = InvalidDate THEN RangeError
    ELSE [hh |-> (d % DAY) \div (DAY \div 24),
          mm |-> ((d % DAY) % (DAY \div 24)) * (60 \div (DAY \div 24))]

\* format(day, 'M gatsu d nichi') and format(day, 'M/d(E)'): the calendar day.
formatDay(d) == d \div DAY

\* A response text is the sequence of its parts; a part is one of these.
Part == [kind |-> "", day |-> 0, n |-> 0, time |-> [hh |-> 0, mm |-> 0],
         title |-> "", description |-> "", greeting |-> "", input |-> <<>>]

\* The list line of the today and tomorrow rules: pin, time, title and, when
\* the description is not empty, " - " and the description.
PinLine(e) ==
    [Part EXCEPT !.kind = "pin", !.time = formatEventTime(e.date),
                 !.title = e.title, !.description = e.description]

\* The event line of the week rule: time and title.
BulletLine(e) ==
    [Part EXCEPT !.kind = "bullet", !.time = formatEventTime(e.date),
                 !.title = e.title]

\* todayEvents.map(...): one list line per event, in order.
PinLines(evs) == [i \in 1..Len(evs) |-> PinLine(evs[i])]

\* The inner loop of the week rule: one line per event of the day, in order.
BulletLines(evs) == [i \in 1..Len(evs) |-> BulletLine(evs[i])]

DayReplyCountsAll(evs, day, none) ==
    LET dayEvents == filterEventsByDate(evs, day)
    IN  IF Len(dayEvents) > 0
        THEN <<[Part EXCEPT !.kind = "count", !.day = formatDay(day),
                            !.n = Len(evs)]>> \o PinLines(dayEvents)
        ELSE <<[Part EXCEPT !.kind = none, !.day = formatDay(day)]>>

\* Rules 1 and 2: the day's header with its count and one line per event, or
\* the day's "nothing in particular" text.
DayReply(evs, day, none) ==
    LET dayEvents == filterEventsByDate(evs, day)
    IN  IF Len(dayEvents) > 0
        THEN <<[Part EXCEPT !.kind = "count", !.day = formatDay(day),
                            !.n = Len(dayEvents)]>> \o PinLines(dayEvents)
        ELSE <<[Part EXCEPT !.kind = none, !.day = formatDay(day)]>>

startOfWeekMonday(t) == (t \div DAY - ((t \div DAY + 6) % 7)) * DAY
startOfWeek(t) == (t \div DAY - ((t \div DAY) % 7)) * DAY

\* eachDayOfInterval from startOfWeek to endOfWeek: seven days.
weekDays(t) == [i \in 1..7 |-> startOfWeek(t) + (i - 1) * DAY]

\* The loop of the week rule over the days from the i-th on.
RECURSIVE WeekLoop(_, _, _, _)
WeekLoop(acc, evs, days, i) ==
    IF i > Len(days) THEN acc
    ELSE LET dayEvents == filterEventsByDate(evs, days[i])
         IN  IF Len(dayEvents) > 0
             THEN WeekLoop([result |-> acc.result
                                \o <<[Part EXCEPT !.kind = "dayHeader",
                                                  !.day = formatDay(days[i])]>>
                                \o BulletLines(dayEvents),
                            totalCount |-> acc.totalCount + Len(dayEvents)],
                           evs, days, i + 1)
             ELSE WeekLoop(acc, evs, days, i + 1)

WeekReply(evs, t) ==
    LET week == WeekLoop([result |-> <<[Part EXCEPT !.kind = "weekTitle"]>>,
                          totalCount |-> 0], evs, weekDays(t), 1)
    IN  IF week.totalCount = 0 THEN <<[Part EXCEPT !.kind = "freeWeek"]>>
        ELSE week.result

GreetingReply(evs, t) ==
    LET hour == (t % DAY) \div (DAY \div 24)
        greeting == IF hour < 10 THEN "ohayougozaimasu"
                    ELSE IF hour >= 18 THEN "konbanha" ELSE "konnichiha"
        todayEvents == filterEventsByDate(evs, t)
    IN  IF Len(todayEvents) > 0
        THEN <<[Part EXCEPT !.kind = "greetCount", !.greeting = greeting,
                            !.n = Len(todayEvents)]>>
        ELSE <<[Part EXCEPT !.kind = "greetNone", !.greeting = greeting]>>

DefaultReply(input) == <<[Part EXCEPT !.kind = "default", !.input = input]>>

\* The value of a call: the text, tagged with the rule that produced it, or
\* the exception it threw.
Thrown == [rule |-> 0 - 1, text |-> <<>>]
Returns(rule, text) ==
    IF \E i \in 1..Len(text) : text[i].time = RangeError THEN Thrown
    ELSE [rule |-> rule, text |-> text]

parseHelpFirst(input, evs, t) ==
    IF asksHelp(input) THEN Returns(7, <<[Part EXCEPT !.kind = "help"]>>)
    ELSE IF asksToday(input) THEN Returns(1, DayReply(evs, t, "noneToday"))
    ELSE IF asksTomorrow(input) THEN Returns(2, DayReply(evs, t + DAY, "noneTomorrow"))
    ELSE IF asksWeek(input) THEN Returns(3, WeekReply(evs, t))
    ELSE IF asksAdd(input) THEN Returns(4, <<[Part EXCEPT !.kind = "add"]>>)
    ELSE IF greets(input) THEN Returns(5, GreetingReply(evs, t))
    ELSE IF thanks(input) THEN Returns(6, <<[Part EXCEPT !.kind = "thanks"]>>)
    ELSE Returns(8, DefaultReply(input))

parseAIResponse(input, evs, t) ==
    IF asksToday(input) THEN Returns(1, DayReply(evs, t, "noneToday"))
    ELSE IF asksTomorrow(input) THEN Returns(2, DayReply(evs, t + DAY, "noneTomorrow"))
    ELSE IF asksWeek(input) THEN Returns(3, WeekReply(evs, t))
    ELSE IF asksAdd(input) THEN Returns(4, <<[Part EXCEPT !.kind = "add"]>>)
    ELSE IF greets(input) THEN Returns(5, GreetingReply(evs, t))
    ELSE IF thanks(input) THEN Returns(6, <<[Part EXCEPT !.kind = "thanks"]>>)
    ELSE IF asksHelp(input) THEN Returns(7, <<[Part EXCEPT !.kind = "help"]>>)
    ELSE Returns(8, DefaultReply(input))

(***************************************************************************)
(* The matcher on its own: an input text, an event collection and a clock  *)
(* reading are drawn, and the reply is computed from them.                 *)
(***************************************************************************)

\* Pieces of text: kyou, ashita, no yotei, kyou ha nani, konshuu, tsuika,
\* ohayou, arigatou, herupu, ga dekiru.  "kyou" then "no yotei" is a
\* trigger of rule 1; "kyou ha nani" then "ga dekiru" holds a trigger of
\* rule 1 and "nani ga dekiru", a trigger of rule 7.
Pieces ==
    { <<"KON", "NICHI">>, <<"MYOU", "NICHI">>, <<"no", "YO", "TEI">>,
      <<"KON", "NICHI", "ha", "NANI">>, <<"KON", "SHUU">>, <<"TSUI", "KA">>,
      <<"o", "ha", "yo", "u">>, <<"a", "ri", "ga", "to", "u">>,
      <<"HE", "RU", "PU">>, <<"ga", "de", "ki", "ru">> }

RECURSIVE InputsOf(_)
InputsOf(n) ==
    IF n = 0 THEN {<<>>}
    ELSE InputsOf(n - 1) \cup {s \o p : s \in InputsOf(n - 1), p \in Pieces}

Inputs == InputsOf(MaxPieces)

\* Clock readings: a Sunday at 08:20 and the Saturday of its week at 19:10.
ChatTimes == {7 * DAY + 100, 13 * DAY + 230}

\* Event dates: that Sunday, the Monday, the Saturday, the Sunday after, and a
\* date string that is no date.
ChatDates == {7 * DAY + 110, 8 * DAY + 120, 13 * DAY + 12, 14 * DAY + 150, InvalidDate}

ChatEvent(i, d) == Event(i, "mtg", d, IF i % 2 = 0 THEN "zoom" ELSE "")

ChatCollections ==
    UNION {[1..n -> ChatDates] : n \in 0..MaxEvents}

EventsAt(ds) == [i \in 1..Len(ds) |-> ChatEvent(i, ds[i])]

MatcherInit ==
    /\ now \in ChatTimes
    /\ \E ds \in ChatCollections : events = EventsAt(ds)
    /\ chatInput \in Inputs
    /\ reply = NoReply
    /\ chat = NoMessages
    /\ isLoaded = TRUE
    /\ notificationsEnabled = FALSE
    /\ effectPending = FALSE
    /\ created = 0
    /\ storage = NoData
    /\ permission = "default"
    /\ swSupported = FALSE
    /\ swState = "none"
    /\ toSW = <<>>
    /\ toClient = 0
    /\ timers = <<>>
    /\ shown = <<>>
    /\ scheduledTimeouts = <<>>
    /\ checkInterval = NoInterval
    /\ NoHistory
    /\ NoForm

RespondAdding ==
    /\ reply = NoReply
    /\ reply' = parseAIResponse(chatInput, events, now)
    /\ events' = IF asksAdd(chatInput)
                 THEN Append(events, Event(Len(events) + 1, "mtg", now, ""))
                 ELSE events
    /\ UNCHANGED <<now, isLoaded, notificationsEnabled, effectPending, created, envVars,
                   swVars, toSW, toClient, histVars, chatInput, chat, formVars>>

\* The reply to a sent message: parseAIResponse of the input, the events and
\* the clock.
Respond ==
    /\ reply = NoReply
    /\ reply' = parseAIResponse(chatInput, events, now)
    /\ UNCHANGED <<now, appVars, envVars, swVars, toSW, toClient, histVars, chatInput, chat, formVars>>

MatcherNext == Respond

MatcherSpec == MatcherInit /\ [][MatcherNext]_vars

Replied == reply # NoReply

\* The rules' trigger predicates, numbered as the rules are.
Triggered(r, input) ==
    CASE r = 1 -> asksToday(input)
      [] r = 2 -> asksTomorrow(input)
      [] r = 3 -> asksWeek(input)
      [] r = 4 -> asksAdd(input)
      [] r = 5 -> greets(input)
      [] r = 6 -> thanks(input)
      [] r = 7 -> asksHelp(input)
      [] OTHER -> TRUE

FirstRule(input) ==
    CHOOSE r \in 1..8 : Triggered(r, input) /\ \A q \in 1..(r - 1) : ~Triggered(q, input)

Count(text, kind) == Cardinality({k \in 1..Len(text) : text[k].kind = kind})

\* C5: the reply is the one of the lowest-numbered rule whose trigger holds
\* for the input; an input holding a "today" phrase and a "help" phrase gets
\* the reply of rule 1.
C5_FirstMatchWins ==
    Replied =>
        /\ reply.rule = FirstRule(chatInput)
        /\ (asksToday(chatInput) /\ asksHelp(chatInput)) => reply.rule = 1

C5_Witness ==
    /\ Replied
    /\ asksToday(chatInput) /\ asksHelp(chatInput)
    /\ reply.rule = 1
    /\ reply.text[1].kind \in {"count", "noneToday"}

\* C6: for an input holding a trigger of rule 1, the count in the reply's
\* header is the number of events of filterEventsByDate(events, today), and
\* the reply has that many event lines (none, and the "nothing today" text,
\* when there is no such event).
C6_TodayCount ==
    (Replied /\ asksToday(chatInput)) =>
        LET n == Len(filterEventsByDate(events, now))
        IN  /\ Count(reply.text, "pin") = n
            /\ n > 0 => /\ reply.text[1].kind = "count"
                        /\ reply.text[1].n = n
                        /\ reply.text[1].day = now \div DAY
                        /\ Len(reply.text) = n + 1
            /\ n = 0 => reply.text = <<[Part EXCEPT !.kind = "noneToday",
                                                    !.day = now \div DAY]>>

C6_Witness ==
    /\ Replied
    /\ asksToday(chatInput)
    /\ Len(events) = 2
    /\ reply.text[1].kind = "count"
    /\ reply.text[1].n = 1
    /\ Count(reply.text, "pin") = 1

\* C7: every call returns a text, and an input for which no trigger of the
\* rules 1 to 7 holds gets the default reply, which quotes the input.
C7_Total ==
    Replied =>
        /\ reply # Thrown
        /\ reply.rule \in 1..8
        /\ reply.text # <<>>
        /\ (\A r \in 1..7 : ~Triggered(r, chatInput)) =>
               /\ reply.rule = 8
               /\ reply.text = <<[Part EXCEPT !.kind = "default", !.input = chatInput]>>

C7_Witness ==
    /\ Replied
    /\ \A r \in 1..7 : ~Triggered(r, chatInput)
    /\ chatInput # <<>>
    /\ reply.text[1].input = chatInput
    /\ \E i \in 1..Len(events) : events[i].date = InvalidDate

\* The calendar days, Sunday to Saturday, of the week of the clock reading.
ThisWeek ==
    LET today == now \div DAY
        sunday == today - (today % 7)
    IN  sunday..(sunday + 6)

EventsOn(d) == {i \in 1..Len(events) : events[i].date # InvalidDate /\ events[i].date \div DAY = d}

\* The day header that the k-th part of a week reply stands under.
HeaderOf(text, k) ==
    CHOOSE j \in 1..k : /\ text[j].kind = "dayHeader"
                        /\ \A m \in (j + 1)..k : text[m].kind # "dayHeader"

\* C8: for an input of the week rule and of no earlier rule, the reply has one
\* day header for each day of the Sunday-to-Saturday week that has an event,
\* in day order, and under it one line for each event of that day, so that
\* the lines are as many as the events of the week; with no event in the week
\* the reply is the free-week text.
C8_WeekBlocks ==
    (Replied /\ asksWeek(chatInput) /\ ~asksToday(chatInput) /\ ~asksTomorrow(chatInput)) =>
        LET text == reply.text
            days == {d \in ThisWeek : EventsOn(d) # {}}
            total == Cardinality(UNION {EventsOn(d) : d \in ThisWeek})
            headers == {k \in 1..Len(text) : text[k].kind = "dayHeader"}
            lines == {k \in 1..Len(text) : text[k].kind = "bullet"}
        IN  IF total = 0 THEN text = <<[Part EXCEPT !.kind = "freeWeek"]>>
            ELSE /\ text[1].kind = "weekTitle"
                 /\ headers \cup lines = 2..Len(text)
                 /\ {text[k].day : k \in headers} = days
                 /\ \A j, k \in headers : j < k => text[j].day < text[k].day
                 /\ Cardinality(lines) = total
                 /\ \A d \in days :
                        Cardinality({k \in lines : text[HeaderOf(text, k)].day = d})
                            = Cardinality(EventsOn(d))
                 /\ \A k \in lines : \E i \in EventsOn(text[HeaderOf(text, k)].day) :
                        /\ text[k].title = events[i].title
                        /\ text[k].time = formatEventTime(events[i].date)

C8_Witness ==
    /\ Replied
    /\ asksWeek(chatInput) /\ ~asksToday(chatInput) /\ ~asksTomorrow(chatInput)
    /\ now \div DAY = 7
    /\ Count(reply.text, "dayHeader") = 2
    /\ Count(reply.text, "bullet") = 2
    /\ reply.text[2].day = 7

\* C8, the free week: no event in the week and the fixed text.
C8_FreeWeekWitness ==
    /\ Replied
    /\ asksWeek(chatInput) /\ ~asksToday(chatInput) /\ ~asksTomorrow(chatInput)
    /\ Len(events) = 2
    /\ reply.text = <<[Part EXCEPT !.kind = "freeWeek"]>>

(***************************************************************************)
(* The periodic re-synchronization: sw.js startNotificationCheck and the   *)
(* page's REQUEST_EVENTS listener.                                         *)
(***************************************************************************)

\* The worker runs and a window of the application is open.
Serving == isLoaded /\ swState = "active"

\* C11: while a window is open, a worker whose context was torn down and
\* recreated has its 30-minute re-synchronization running again (so that it
\* asks the window for the collection and re-arms the triggers).
C11_ResyncRunsAfterTeardown == Serving => checkInterval # NoInterval

\* Once the worker's context is recreated without its interval, no step of the
\* page or of the worker starts the interval again.
C11_LostResyncStaysLost ==
    [][(swState = "active" /\ checkInterval = NoInterval) => checkInterval' = NoInterval]_vars

(***************************************************************************)
(* The re-synchronization on its own: a window stays open, the worker      *)
(* keeps running, the collection never changes, and the callbacks run when *)
(* they are due (the clock advances only when no callback or message is    *)
(* waiting).                                                               *)
(***************************************************************************)

\* Dates of the stored event: 24 hours ahead, and a little more.
ResyncDates == {DAY, DAY + 2, DAY + 5}

ResyncHorizon == DAY + INTERVAL

ResyncInit ==
    /\ now = 0
    /\ \E d \in ResyncDates :
          LET evs == <<Event(1, "mtg", d, "")>>
              st == scheduleNotifications(<<>>, <<>>, evs, 0)
          IN  /\ storage = saveEvents(evs)
              /\ events = evs
              /\ timers = st.timers
              /\ scheduledTimeouts = st.list
    /\ isLoaded = TRUE
    /\ notificationsEnabled \in BOOLEAN
    /\ permission = IF notificationsEnabled THEN "granted" ELSE "default"
    /\ effectPending = FALSE
    /\ created = 0
    /\ swSupported = TRUE
    /\ swState = "active"
    /\ toSW = <<>>
    /\ toClient = 0
    /\ shown = <<>>
    /\ checkInterval \in 1..INTERVAL
    /\ NoHistory
    /\ NoForm
    /\ NoChat

\* The clock advances when nothing is due.
ResyncTick ==
    /\ now < ResyncHorizon
    /\ toSW = <<>>
    /\ toClient = 0
    /\ checkInterval # NoInterval => now < checkInterval
    /\ \A h \in DOMAIN timers : now < timers[h].due
    /\ now' = now + 1
    /\ UNCHANGED <<appVars, envVars, swVars, toSW, toClient, histVars, chatVars, formVars>>

ResyncNext ==
    \/ SWIntervalFire
    \/ ClientMessage
    \/ SWMessage
    \/ SWTimerFire
    \/ ResyncTick

ResyncSpec == ResyncInit /\ [][ResyncNext]_vars

\* The instant at which a trigger of an event fires.
FireInstant(e, kind) == IF kind = "pre" THEN e.date - REMINDER ELSE e.date

PendingFor(e, kind) ==
    \E h \in DOMAIN timers :
        /\ timers[h].event.id = e.id
        /\ timers[h].kind = kind
        /\ timers[h].due = FireInstant(e, kind)

\* C12: a trigger whose fire instant is 24 hours or more ahead when the
\* collection is first scheduled is not armed while it is that far ahead, and
\* is armed, with no change of the collection, from the first
\* re-synchronization after it came within 24 hours until its fire instant.
C12_ArmedOnceWithinWindow ==
    \A i \in 1..Len(events) : \A kind \in {"pre", "at"} :
        LET f == FireInstant(events[i], kind)
        IN  f >= DAY =>
                /\ now <= f - DAY => ~PendingFor(events[i], kind)
                /\ (now > f - DAY + INTERVAL /\ now < f) => PendingFor(events[i], kind)

C12_Witness ==
    /\ events = <<Event(1, "mtg", DAY + 5, "")>>
    /\ storage = saveEvents(events)
    /\ now = DAY + 2
    /\ PendingFor(events[1], "pre")
    /\ PendingFor(events[1], "at")

(***************************************************************************)
(* Persistence on its own: calendar.ts loadEvents and saveEvents, called   *)
(* on a collection in memory and on what localStorage holds.               *)
(***************************************************************************)

\* Collections of events as the application makes them: the description is a
\* text, an empty text, or undefined.
StorageEvents(i) ==
    {Event(i, "mtg", d, desc) : d \in {3, DAY + 2}, desc \in {"", "zoom", Undefined}}

StorageCollections ==
    UNION {{c \in [1..n -> UNION {StorageEvents(i) : i \in 1..n}] :
                \A j \in 1..n : c[j].id = j} : n \in 0..MaxEvents}

\* What localStorage may hold at first: nothing, the empty text, a text that
\* is no JSON, the JSON of an object, and what saveEvents wrote.
StoredTexts ==
    {NoData, Text("empty", <<>>), Text("invalid", <<>>), Text("object", <<>>),
     Stored(<<>>), Stored(<<Event(0, "gym", DAY + 2, Undefined)>>)}

StorageInit ==
    /\ now = 0
    /\ events \in StorageCollections
    /\ storage \in StoredTexts
    /\ io = NoIO
    /\ modal = [open |-> FALSE, title |-> <<>>, submits |-> 0]
    /\ isLoaded = FALSE
    /\ notificationsEnabled = FALSE
    /\ effectPending = FALSE
    /\ created = 0
    /\ permission = "default"
    /\ swSupported = FALSE
    /\ swState = "none"
    /\ toSW = <<>>
    /\ toClient = 0
    /\ timers = <<>>
    /\ shown = <<>>
    /\ scheduledTimeouts = <<>>
    /\ checkInterval = NoInterval
    /\ NoHistory
    /\ NoChat

\* const loaded = loadEvents()
Load ==
    /\ io.op # "load"
    /\ events' = loadEvents(storage, now)
    /\ io' = [io EXCEPT !.op = "load"]
    /\ UNCHANGED <<now, isLoaded, notificationsEnabled, effectPending, created, envVars,
                   swVars, toSW, toClient, histVars, chatVars, modal>>

\* saveEvents(events), of a collection of events
Save ==
    /\ io.saves < MaxSaves
    /\ events # NotAnArray
    /\ storage' = saveEvents(events)
    /\ io' = [op |-> "save", saves |-> io.saves + 1, given |-> events]
    /\ UNCHANGED <<now, appVars, permission, swSupported, swVars, toSW, toClient,
                   histVars, chatVars, modal>>

StorageNext == Load \/ Save

StorageSpec == StorageInit /\ [][StorageNext]_vars

\* localStorage holds the JSON of an array.
WellFormed(store) == store.present /\ store.syntax = "array"

\* C13: loadEvents returns a collection of events: the persisted one when
\* the stored text is the JSON of an array of events, and the four seed
\* events when there is no stored text or the text is empty, is no JSON, or is
\* the JSON of something else.
C13_LoadNeverFails ==
    io.op = "load" =>
        /\ events # NotAnArray
        /\ IF WellFormed(storage) THEN events = JSONparse(storage)
           ELSE events = getDefaultEvents(now) /\ Len(events) = 4

\* What the code does: it falls back to the seeds only when there is no text,
\* the text is empty or the text is no JSON.
C13_SeedsUnlessJSON ==
    io.op = "load" =>
        IF WellFormed(storage) THEN events = JSONparse(storage)
        ELSE IF storage.present /\ storage.syntax = "object" THEN events = NotAnArray
        ELSE events = getDefaultEvents(now) /\ Len(events) = 4

\* C14: loadEvents after saveEvents(E) returns E, equal in every field and in
\* order, and saving E again leaves the stored text as the first save left it.
C14_RoundTrip ==
    [][ /\ (io'.op = "load" /\ io'.saves >= 1) => events' = io'.given
        /\ (io.op = "save" /\ io'.op = "save" /\ io'.given = io.given) => storage' = storage
      ]_vars

C14_Witness ==
    /\ io.op = "load"
    /\ io.saves = 2
    /\ events = io.given
    /\ Len(events) = 2
    /\ events[1].description = Undefined
    /\ events[2].description = ""

(***************************************************************************)
(* The two readers of the collection side by side: the matcher answers a   *)
(* message and the worker schedules the collection the page has posted.    *)
(***************************************************************************)
ReadersInit ==
    /\ now = 7 * DAY + 100
    /\ \E ds \in ChatCollections : events = EventsAt(ds)
    /\ storage = saveEvents(events)
    /\ toSW = <<events>>
    /\ chatInput \in Inputs
    /\ reply = NoReply
    /\ chat = NoMessages
    /\ isLoaded = TRUE
    /\ notificationsEnabled = TRUE
    /\ effectPending = FALSE
    /\ created = 0
    /\ permission = "granted"
    /\ swSupported = TRUE
    /\ swState = "active"
    /\ toClient = 0
    /\ timers = <<>>
    /\ shown = <<>>
    /\ scheduledTimeouts = <<>>
    /\ checkInterval = now + INTERVAL
    /\ NoHistory
    /\ NoForm

ReadersNext == Respond \/ SWMessage

ReadersSpec == ReadersInit /\ [][ReadersNext]_vars

\* C15: neither parseAIResponse nor scheduleNotifications changes the
\* collection: the reply to the add-event intent is the instruction text only
\* and creates no event, and the triggers that the worker arms carry the events
\* as they were posted.
C15_ReadersDoNotMutate ==
    [][ /\ events' = events
        /\ storage' = storage
        /\ (reply' # reply /\ asksAdd(chatInput) /\ reply'.rule = 4) =>
               reply'.text = <<[Part EXCEPT !.kind = "add"]>>
        /\ Handles => \A h \in DOMAIN timers' : timers'[h].event \in Range(Head(toSW))
      ]_vars

C15_Witness ==
    /\ Replied
    /\ reply.rule = 4
    /\ Len(events) = 2
    /\ toSW = <<>>
    /\ Cardinality(DOMAIN timers) = 4
    /\ \A h \in DOMAIN timers : timers[h].event \in Range(events)

\* C16: once the collection is loaded, every add and every delete makes the
\* save effect run, and whenever the effect has run and no change is waiting
\* for it the stored text is the serialization of the collection in memory.
C16_SavedAfterEveryChange ==
    [][ /\ (isLoaded /\ events' # events) => effectPending'
        /\ (isLoaded' /\ ~effectPending') => storage' = JSONstringify(events')
      ]_vars

C16_Witness ==
    /\ isLoaded /\ ~effectPending
    /\ ~notificationsEnabled
    /\ created = 1
    /\ Len(events) = 2
    /\ storage = JSONstringify(events)

(***************************************************************************)
(* The notifications that the timers' callbacks show.                      *)
(***************************************************************************)

\* C17: every notification shown has the fixed title of its kind, a body with
\* the formatted time of the event and its title (and the description on a
\* line of its own when there is one), and a tag made of the event's id and
\* the kind, other for the reminder than for the at-time notification.
C17_NotificationContent ==
    \A i \in 1..Len(shown) :
        LET n == shown[i]
        IN  /\ n.title = (IF n.kind = "pre" THEN "mamonaku yotei ga arimasu"
                          ELSE "yotei no jikan desu")
            /\ n.body.time = [hh |-> (n.event.date % DAY) \div 12,
                              mm |-> (n.event.date % 12) * 5]
            /\ n.body.title = n.event.title
            /\ n.body.description = n.event.description
            /\ n.tag.id = n.event.id
            /\ \A j \in 1..Len(shown) :
                   (shown[j].event.id = n.event.id /\ shown[j].kind # n.kind)
                       => shown[j].tag # n.tag

\* What the code does: the body of the at-time notification has no time.
C17_ContentButTimeAtEventTime ==
    \A i \in 1..Len(shown) :
        LET n == shown[i]
        IN  /\ n.title = (IF n.kind = "pre" THEN "mamonaku yotei ga arimasu"
                          ELSE "yotei no jikan desu")
            /\ n.kind = "pre" => n.body.time = [hh |-> (n.event.date % DAY) \div 12,
                                                mm |-> (n.event.date % 12) * 5]
            /\ n.kind = "at" => n.body.time = NoTime
            /\ n.body.title = n.event.title
            /\ n.body.description = n.event.description
            /\ n.tag.id = n.event.id
            /\ \A j \in 1..Len(shown) :
                   (shown[j].event.id = n.event.id /\ shown[j].kind # n.kind)
                       => shown[j].tag # n.tag

(***************************************************************************)
(* The add-event form: page.tsx AddEventModal.  A title is the sequence of *)
(* its characters.                                                         *)
(***************************************************************************)

\* White space that String.prototype.trim removes: the blank and the
\* ideographic space of a Japanese keyboard.
WhiteSpace == {" ", "U+3000"}

RECURSIVE trimStart(_)
trimStart(s) == IF s # <<>> /\ Head(s) \in WhiteSpace THEN trimStart(Tail(s)) ELSE s

RECURSIVE trimEnd(_)
trimEnd(s) ==
    IF s # <<>> /\ s[Len(s)] \in WhiteSpace THEN trimEnd(SubSeq(s, 1, Len(s) - 1)) ELSE s

trimNothing(s) == s
trim(s) == trimEnd(trimStart(s))

\* What is typed into the title field.
FormTitles == {<<>>, <<" ">>, <<"U+3000", " ">>, <<"m">>, <<" ", "m", " ">>}

FormInit ==
    /\ now = 0
    /\ events = <<>>
    /\ storage = saveEvents(events)
    /\ isLoaded = TRUE
    /\ notificationsEnabled = TRUE
    /\ effectPending = FALSE
    /\ created = 0
    /\ permission = "granted"
    /\ swSupported = TRUE
    /\ swState = "active"
    /\ toSW = <<>>
    /\ toClient = 0
    /\ timers = <<>>
    /\ shown = <<>>
    /\ scheduledTimeouts = <<>>
    /\ checkInterval = INTERVAL
    /\ NoHistory
    /\ NoChat
    /\ NoForm

\* The "+ add" button: setShowAddModal(true)
OpenModal ==
    /\ ~modal.open
    /\ modal' = [modal EXCEPT !.open = TRUE]
    /\ UNCHANGED <<now, appVars, envVars, swVars, toSW, toClient, histVars, chatVars, io>>

\* onChange of the title field: setTitle(e.target.value)
setTitle ==
    /\ modal.open
    /\ \E t \in FormTitles : modal' = [modal EXCEPT !.title = t]
    /\ UNCHANGED <<now, appVars, envVars, swVars, toSW, toClient, histVars, chatVars, io>>

\* AddEventModal.handleSubmit: returns at once on a blank title; else onAdd
\* (handleAddEvent) with the trimmed title, the fields are reset and the modal
\* is closed.
handleSubmit ==
    /\ modal.open
    /\ modal.submits <= MaxAdds
    /\ IF trim(modal.title) = <<>>
       THEN /\ modal' = [modal EXCEPT !.submits = @ + 1]
            /\ UNCHANGED <<events, created, effectPending>>
       ELSE /\ created < MaxAdds
            /\ \E d \in FormDates :
                  events' = Append(events, Event(created + 1, trim(modal.title), d, ""))
            /\ created' = created + 1
            /\ effectPending' = TRUE
            /\ modal' = [open |-> FALSE, title |-> <<>>, submits |-> modal.submits + 1]
    /\ UNCHANGED <<now, isLoaded, notificationsEnabled, envVars, swVars, toSW, toClient,
                   histVars, chatVars, io>>

FormNext ==
    \/ OpenModal
    \/ setTitle
    \/ handleSubmit
    \/ handleDeleteEvent
    \/ SaveEffect
    \/ SWMessage
    \/ Tick

FormSpec == FormInit /\ [][FormNext]_vars

Blank(title) == \A i \in 1..Len(title) : title[i] \in WhiteSpace

\* C18: submitting the form with an empty title or one of white space only
\* changes nothing: no event is created, the collection, the stored text and
\* the armed triggers stay as they are, no reaction is started, and the form
\* stays open as it was.
C18_BlankTitleInert ==
    [][ (modal'.submits = modal.submits + 1 /\ Blank(modal.title)) =>
            /\ events' = events
            /\ created' = created
            /\ storage' = storage
            /\ effectPending' = effectPending
            /\ toSW' = toSW
            /\ timers' = timers
            /\ scheduledTimeouts' = scheduledTimeouts
            /\ modal'.open = modal.open
            /\ modal'.title = modal.title
      ]_vars

C18_Witness ==
    /\ modal.submits = 1
    /\ modal.open
    /\ modal.title = <<"U+3000", " ">>
    /\ events = <<>>
    /\ created = 0
    /\ storage = saveEvents(<<>>)
    /\ ~effectPending
    /\ toSW = <<>>

(***************************************************************************)
(* Adding and deleting: page.tsx handleAddEvent, handleDeleteEvent.        *)
(***************************************************************************)

Adds == created' = created + 1
Deletes == isLoaded /\ created' = created /\ events' # events

\* The positions of evs whose event does not have the id.
Kept(evs, id) == {i \in 1..Len(evs) : evs[i].id # id}

\* The j-th position of a set of positions, in increasing order.
Nth(S, j) == CHOOSE i \in S : Cardinality({k \in S : k <= i}) = j

C20_NoDuplicateNotification ==
    \A i, j \in 1..Len(shown) :
        (shown[i].event.id = shown[j].event.id /\ shown[i].kind = shown[j].kind) => i = j

\* The reminder of an event of the collection was shown, and a later push
\* armed the triggers again: the list holds the at-time trigger only.
C20_Witness ==
    /\ toSW = <<>>
    /\ Len(scheduledTimeouts) = 1
    /\ scheduledTimeouts[1] \in DOMAIN timers
    /\ \E i \in 1..Len(shown) :
          /\ shown[i].kind = "pre"
          /\ shown[i].event \in Range(events)
          /\ timers[scheduledTimeouts[1]].event = shown[i].event
          /\ timers[scheduledTimeouts[1]].kind = "at"
          /\ now < shown[i].event.date

(***************************************************************************)
(* A push that reaches the worker when a timer is due and its callback has *)
(* not run yet.                                                            *)
(***************************************************************************)

\* Timer h is due and its callback has not run.
Overdue(h) == h \in DOMAIN timers /\ now >= timers[h].due

\* C21: a trigger armed for an event is not lost by arming again: when
\* scheduleNotifications is called with a collection that still holds the
\* event, at or after the trigger's instant and before its callback has run,
\* the trigger is still pending afterwards (so that its notification is
\* emitted).
C21_RearmKeepsDueTrigger ==
    [][ \A h \in DOMAIN timers :
           (Handles /\ Overdue(h) /\ timers[h].event \in Range(Head(toSW))) =>
               \E k \in DOMAIN timers' :
                   /\ timers'[k].event = timers[h].event
                   /\ timers'[k].kind = timers[h].kind
      ]_vars

\* What the code does: a push clears every trigger that is due, and none of
\* them is armed again.
C21_RearmDropsDueTriggers ==
    [][ Handles => \A k \in DOMAIN timers' : timers'[k].due > now ]_vars

(***************************************************************************)
(* Deleting an event and switching the notifications off.                  *)
(***************************************************************************)

\* The page has nothing left to do for the worker: the save & push effect has
\* run and every message posted has been handled.
Settled == isLoaded /\ ~effectPending /\ toSW = <<>> /\ toClient = 0

Ids(evs) == {evs[i].id : i \in 1..Len(evs)}

\* A step in which a notification is shown
Shows == Len(shown') > Len(shown)

\* C22: once a deletion has been worked off (the effect has run, the worker
\* has handled what was posted), no trigger of an event that is not in the
\* collection is left to run: no notification is shown for such an event,
\* whether the notifications were enabled at the deletion or not.
C22_NoTriggerForDeletedEvent ==
    [][ (Settled /\ Shows) => shown'[Len(shown')].event.id \in Ids(events) ]_vars

\* What the code does: the same, for as long as the notifications are enabled.
C22_NoTriggerForDeletedEventWhenEnabled ==
    [][ (Settled /\ notificationsEnabled /\ Shows) =>
            shown'[Len(shown')].event.id \in Ids(events) ]_vars

\* C23: while the notifications are switched off no notification is shown:
\* the triggers armed before the switch-off are cancelled (the switch-off has
\* been worked off: the effect has run and no message is in flight).
C23_NoNotificationWhileOff ==
    [][ (Settled /\ ~notificationsEnabled /\ ~notificationsEnabled') => ~Shows ]_vars

\* What the code does: switching off leaves the worker's timers as they are.
C23_SwitchOffKeepsTimers ==
    [][ (notificationsEnabled /\ ~notificationsEnabled') =>
            (timers' = timers /\ scheduledTimeouts' = scheduledTimeouts /\ toSW' = toSW) ]_vars

(***************************************************************************)
(* The stored text before and after the initial load.                      *)
(***************************************************************************)

\* A step that writes the stored text
Writes == storage' # storage

\* C24: the stored text is not overwritten before the initial load: while
\* isLoaded is false nothing is written (the effect's first run, with the
\* empty collection of the first render, saves nothing), and what is written
\* afterwards is the collection in memory.
C24_NoSaveBeforeLoad ==
    [][ /\ ~isLoaded => ~Writes
        /\ Writes => storage' = saveEvents(events) ]_vars

\* The effect's first run has passed, the page is not loaded and the stored
\* text is what the earlier session left.
C24_Witness ==
    /\ ~isLoaded
    /\ ~effectPending
    /\ events = <<>>
    /\ storage \in StoredCollections
    /\ storage # saveEvents(events)

(***************************************************************************)
(* The chat panel: page.tsx handleSendMessage.  The panel's clock chat.ms  *)
(* counts units of 200 ms; the day and hour the matcher reads do not       *)
(* change while it runs.                                                   *)
(***************************************************************************)

\* 600 + Math.random() * 600 milliseconds, in units of 200 ms: 600, 800, 1000.
ReplyBase == 3
ReplySpread == 3
ReplyDelays == ReplyBase..(ReplyBase + ReplySpread - 1)

\* What is typed into the chat input.
ChatTexts ==
    {<<>>, <<" ">>, <<"HE", "RU", "PU">>, <<"KON", "NICHI", "no", "YO", "TEI">>}

ChatInit ==
    /\ now = 7 * DAY + 100
    /\ events = EventsAt(<<7 * DAY + 110>>)
    /\ storage = saveEvents(events)
    /\ isLoaded = TRUE
    /\ notificationsEnabled = FALSE
    /\ effectPending = FALSE
    /\ created = 0
    /\ permission = "default"
    /\ swSupported = FALSE
    /\ swState = "none"
    /\ toSW = <<>>
    /\ toClient = 0
    /\ timers = <<>>
    /\ shown = <<>>
    /\ scheduledTimeouts = <<>>
    /\ checkInterval = NoInterval
    /\ NoHistory
    /\ NoChat
    /\ NoForm

\* onChange of the chat input: setInputValue(e.target.value)
setInputValue ==
    /\ \E t \in ChatTexts \ {chatInput} : chatInput' = t
    /\ UNCHANGED <<now, appVars, envVars, swVars, toSW, toClient, histVars, reply, chat,
                   formVars>>

\* handleSendMessage: returns on a blank input; else the user's message is
\* appended, the input emptied, isTyping set, and the reply is left to a
\* timeout of a random delay, which keeps the input and the collection of
\* this render.
handleSendMessage ==
    /\ trim(chatInput) # <<>>
    /\ chat.sent < MaxSends
    /\ \E d \in ReplyDelays :
          chat' = [chat EXCEPT
                     !.messages = Append(@, [sender |-> "user", of |-> chat.sent + 1,
                                             text |-> chatInput]),
                     !.isTyping = TRUE,
                     !.timeouts = @ @@ (NewHandle(@) :>
                                          [due |-> chat.ms + d, of |-> chat.sent + 1,
                                           input |-> chatInput, events |-> events]),
                     !.sent = @ + 1]
    /\ chatInput' = <<>>
    /\ UNCHANGED <<now, appVars, envVars, swVars, toSW, toClient, histVars, reply, formVars>>

\* The timeout's callback: parseAIResponse(currentInput, events), the reply
\* appended to the messages, isTyping reset.  If parseAIResponse throws, the
\* callback ends there.
ReplyTimeout ==
    /\ \E h \in DOMAIN chat.timeouts :
          /\ Expired(chat.timeouts, h, chat.ms)
          /\ LET tm == chat.timeouts[h]
                 result == parseAIResponse(tm.input, tm.events, now)
             IN  /\ reply' = result
                 /\ chat' = [chat EXCEPT
                               !.timeouts = Fired(@, h),
                               !.messages = IF result = Thrown THEN @
                                            ELSE Append(@, [sender |-> "ai", of |-> tm.of,
                                                            text |-> result.text]),
                               !.isTyping = IF result = Thrown THEN @ ELSE FALSE]
    /\ UNCHANGED <<now, appVars, envVars, swVars, toSW, toClient, histVars, chatInput,
                   formVars>>

\* 200 ms pass; a timeout that is due runs first.
ChatTick ==
    /\ chat.ms < MaxMs
    /\ \A h \in DOMAIN chat.timeouts : chat.timeouts[h].due > chat.ms
    /\ chat' = [chat EXCEPT !.ms = @ + 1]
    /\ UNCHANGED <<now, appVars, envVars, swVars, toSW, toClient, histVars, chatInput, reply,
                   formVars>>

ChatNext ==
    \/ setInputValue
    \/ handleSendMessage
    \/ ReplyTimeout
    \/ ChatTick

ChatSpec == ChatInit /\ [][ChatNext]_vars

\* The places of the assistant's messages in the list
Replies == {i \in 1..Len(chat.messages) : chat.messages[i].sender = "ai"}

\* C25: the replies keep the order of the messages that caused them: of two
\* replies in the list, the earlier one answers the earlier message.
C25_RepliesInOrder ==
    \A i, j \in Replies : i < j => chat.messages[i].of < chat.messages[j].of

\* What the code does: a reply comes after the message it answers, and the
\* replies are in the order of their timeouts' instants.
C25_ReplyAfterItsMessage ==
    \A i \in Replies :
        \E k \in 1..(i - 1) :
            /\ chat.messages[k].sender = "user"
            /\ chat.messages[k].of = chat.messages[i].of

(***************************************************************************)
(* The order of an event's two notifications.  The page is loaded, the     *)
(* permission granted, and the worker has armed both triggers of the       *)
(* collection's event in one call, at instant 0.                           *)
(***************************************************************************)

OrderEvents == <<Event(0, "gym", REMINDER + 1, "back")>>

OrderInit ==
    /\ now = 0
    /\ events = OrderEvents
    /\ storage = saveEvents(events)
    /\ isLoaded = TRUE
    /\ notificationsEnabled = TRUE
    /\ effectPending = FALSE
    /\ created = 0
    /\ permission = "granted"
    /\ swSupported = TRUE
    /\ swState = "active"
    /\ toSW = <<>>
    /\ toClient = 0
    /\ LET st == scheduleNotifications(<<>>, <<>>, events, now)
       IN  timers = st.timers /\ scheduledTimeouts = st.list
    /\ shown = <<>>
    /\ checkInterval = INTERVAL
    /\ NoHistory
    /\ NoChat
    /\ NoForm

OrderNext ==
    \/ handleAddEvent
    \/ handleDeleteEvent
    \/ SaveEffect
    \/ SWMessage
    \/ SWTimerFire
    \/ SWIntervalFire
    \/ ClientMessage
    \/ Tick

OrderSpec == OrderInit /\ [][OrderNext]_vars

\* The notification at place j is the at-time alert of an event both of whose
\* triggers one call armed: an event of OrderEvents, whose triggers the call
\* at instant 0 armed.
AlertOfBothArmed(j) ==
    /\ shown[j].kind = "at"
    /\ shown[j].event.date - REMINDER > 0
    /\ shown[j].event.id \in Ids(OrderEvents)

\* C26: for an event both of whose triggers were armed by one call of
\* scheduleNotifications, the reminder is shown before the at-time alert.
C26_ReminderBeforeAlert ==
    \A j \in 1..Len(shown) :
        AlertOfBothArmed(j) =>
            \E i \in 1..(j - 1) :
                shown[i].kind = "pre" /\ shown[i].event.id = shown[j].event.id

\* What the code does: the timers of one call run in the order of their
\* instants, so an alert is never followed by the reminder of its event.
C26_NoReminderAfterAlert ==
    \A i, j \in 1..Len(shown) :
        (shown[i].kind = "at" /\ shown[j].kind = "pre"
            /\ shown[i].event.id = shown[j].event.id) => j < i

====
